---- MODULE Spec2Model ----
(***************************************************************************)
(* Model of the expense-reconciliation client (src/src/app/page.tsx) and   *)
(* of the two API routes it calls.  The React state of App is the state of *)
(* the model; every handler is one action, and every asynchronous handler  *)
(* is cut at its awaits.                                                   *)
(***************************************************************************)
EXTENDS Integers, Sequences, FiniteSets, TLC

\* ------------------------------------------------------------------ bounds
MaxTickets == 2      \* receipts held by one session
MaxRuns == 2         \* invocations of handleTicketFiles alive at once
MaxBatch == 2        \* files of one intake call
MaxURLs == 2         \* object URLs one page makes before it is closed

\* ------------------------------------------------------------------ inputs
Names == {"a", "b"}
MediaTypes == {"image", "pdf", "other"}
Files == [name : Names, type : MediaTypes]

VARIABLES
    step,          \* useState(0)
    movements,     \* useState<Movement[]>([])
    colMap,        \* useState({ fecha: "", importe: "", concepto: "" })
    excelHeaders,  \* useState<string[]>([])
    excelRaw,      \* useState<unknown[][]>([])
    tickets,       \* useState<Ticket[]>([])
    matchResult,   \* useState<MatchResult | null>(null)
    loading,       \* useState(false)
    toast,         \* useState<{msg,type} | null>(null)
    excelRead,     \* the FileReader of handleExcelFile and the sheet it read
    runs,          \* the invocations of handleTicketFiles, each at one of its awaits
    matchCall,     \* the invocation of runMatching, at its await
    basis,         \* what the request behind matchResult summarised (history)
    objectURLs,    \* object URLs made by URL.createObjectURL and not revoked
    workbook       \* the sheets of the last file written by XLSX.writeFile

vars == <<step, movements, colMap, excelHeaders, excelRaw, tickets, matchResult,
          loading, toast, excelRead, runs, matchCall, basis, objectURLs, workbook>>

excelVars == <<movements, colMap, excelHeaders, excelRaw, excelRead>>
matchVars == <<matchResult, loading, matchCall, basis>>
\* what the handlers leave outside the state of App
effectVars == <<objectURLs, workbook>>

\* ------------------------------------------------------------------ helpers
NoData == [kind |-> "null", v |-> 0]
RunIds == 1..MaxRuns
\* base: how many receipts the session held when the call was made (history)
\* stale: the session was reset while the call was looping (history)
IdleRun == [pc |-> "idle", entries |-> <<>>, i |-> 0, base |-> 0, stale |-> FALSE]


\* ------------------------------------------------------------------ text
\* A string is a sequence of one-character strings.
DigitChars == <<"0", "1", "2", "3", "4", "5", "6", "7", "8", "9">>
UpperChars == <<"A", "B", "C", "D", "E", "F", "G", "H", "I", "J", "K", "L", "M",
                "N", "O", "P", "Q", "R", "S", "T", "U", "V", "W", "X", "Y", "Z">>
LowerChars == <<"a", "b", "c", "d", "e", "f", "g", "h", "i", "j", "k", "l", "m",
                "n", "o", "p", "q", "r", "s", "t", "u", "v", "w", "x", "y", "z">>

IsDigit(c) == \E d \in 1..10 : DigitChars[d] = c
DigitVal(c) == (CHOOSE d \in 1..10 : DigitChars[d] = c) - 1

\* String.prototype.toLowerCase
LowerChar(c) ==
    IF \E k \in 1..26 : UpperChars[k] = c
    THEN LowerChars[CHOOSE k \in 1..26 : UpperChars[k] = c]
    ELSE c
ToLowerCase(s) == [k \in DOMAIN s |-> LowerChar(s[k])]

\* s has w at position p (1-based)
HasAt(s, p, w) ==
    /\ p >= 1
    /\ p + Len(w) - 1 <= Len(s)
    /\ \A k \in 1..Len(w) : s[p + k - 1] = w[k]

\* String.prototype.includes
Includes(s, w) == \E p \in 1..(Len(s) + 1) : HasAt(s, p, w)

\* length of the run of blanks / of digits of s that starts at position p
RECURSIVE WsRun(_, _)
WsRun(s, p) == IF p <= Len(s) /\ s[p] = " " THEN 1 + WsRun(s, p + 1) ELSE 0

RECURSIVE DigitRun(_, _)
DigitRun(s, p) == IF p <= Len(s) /\ IsDigit(s[p]) THEN 1 + DigitRun(s, p + 1) ELSE 0

RECURSIVE TrailingWs(_)
TrailingWs(s) ==
    IF s # <<>> /\ s[Len(s)] = " " THEN 1 + TrailingWs(SubSeq(s, 1, Len(s) - 1)) ELSE 0

\* String.prototype.trim
Trim(s) ==
    LET lead == WsRun(s, 1) IN
    IF lead = Len(s) THEN <<>> ELSE SubSeq(s, lead + 1, Len(s) - TrailingWs(s))

\* a replace that replaces nothing
KeepCommas(s) == s

\* String.prototype.replace(",", "."): the first comma only
ReplaceFirstComma(s) ==
    IF \E p \in DOMAIN s : s[p] = ","
    THEN LET p == CHOOSE q \in DOMAIN s : s[q] = "," /\ \A k \in 1..(q - 1) : s[k] # ","
         IN [k \in DOMAIN s |-> IF k = p THEN "." ELSE s[k]]
    ELSE s

\* value of the n digits of s that start at position p
RECURSIVE DigitsVal(_, _, _)
DigitsVal(s, p, n) ==
    IF n = 0 THEN 0 ELSE 10 * DigitsVal(s, p, n - 1) + DigitVal(s[p + n - 1])

RECURSIVE Pow10(_)
Pow10(n) == IF n <= 0 THEN 1 ELSE 10 * Pow10(n - 1)

\* ------------------------------------------------------------------ numbers
\* A JavaScript number is NaN, an infinity, or the decimal m * 10^e with m
\* carrying no trailing zero (exact for the short mantissas of the inputs).
NaN == [k |-> "nan", m |-> 0, e |-> 0]
Zero == [k |-> "fin", m |-> 0, e |-> 0]
Infinity(neg) == [k |-> "inf", m |-> IF neg THEN -1 ELSE 1, e |-> 0]

Abs(n) == IF n < 0 THEN -n ELSE n

RECURSIVE NumDigits(_)
NumDigits(n) == IF n < 10 THEN 1 ELSE 1 + NumDigits(n \div 10)

RECURSIVE Normalize(_, _)
Normalize(m, e) ==
    IF m = 0 THEN Zero
    ELSE IF m % 10 = 0 THEN Normalize(m \div 10, e + 1)
    ELSE [k |-> "fin", m |-> m, e |-> e]

\* the first seven significant digits of m
Lead7(m) ==
    LET n == NumDigits(Abs(m)) IN
    IF n <= 7 THEN Abs(m) * Pow10(7 - n) ELSE Abs(m) \div Pow10(n - 7)

\* rounding of the decimal m * 10^e to a double: below 2^-1075 it is 0, from
\* 2^1024 - 2^970 on it is an infinity
ToDouble(m, e) ==
    LET mag == e + NumDigits(Abs(m)) IN
    IF m = 0 THEN Zero
    ELSE IF mag < -323 \/ (mag = -323 /\ Lead7(m) < 2470329) THEN Zero
    ELSE IF mag > 309 \/ (mag = 309 /\ Lead7(m) > 1797693) THEN Infinity(m < 0)
    ELSE Normalize(m, e)

InfinityWord == <<"I", "n", "f", "i", "n", "i", "t", "y">>

\* the StrDecimalLiteral of s that starts at position p: how many characters it
\* takes (0 when there is none) and its value
DecimalAt(s, p) ==
    LET neg == p <= Len(s) /\ s[p] = "-"
        p1 == IF p <= Len(s) /\ s[p] \in {"+", "-"} THEN p + 1 ELSE p
        nInt == DigitRun(s, p1)
        p2 == p1 + nInt
        hasDot == p2 <= Len(s) /\ s[p2] = "."
        nFrac == IF hasDot THEN DigitRun(s, p2 + 1) ELSE 0
        p3 == IF hasDot THEN p2 + 1 + nFrac ELSE p2
        hasE == p3 <= Len(s) /\ s[p3] \in {"e", "E"}
        eNeg == hasE /\ p3 + 1 <= Len(s) /\ s[p3 + 1] = "-"
        p4 == IF hasE /\ p3 + 1 <= Len(s) /\ s[p3 + 1] \in {"+", "-"}
              THEN p3 + 2 ELSE p3 + 1
        nExp == IF hasE THEN DigitRun(s, p4) ELSE 0
        expo == IF nExp = 0 THEN 0
                ELSE IF eNeg THEN -DigitsVal(s, p4, nExp) ELSE DigitsVal(s, p4, nExp)
        mant == DigitsVal(s, p1, nInt) * Pow10(nFrac) + DigitsVal(s, p2 + 1, nFrac)
        stop == IF nExp > 0 THEN p4 + nExp ELSE p3
    IN IF HasAt(s, p1, InfinityWord)
       THEN [len |-> p1 + 8 - p, val |-> Infinity(neg)]
       ELSE IF nInt + nFrac = 0
       THEN [len |-> 0, val |-> NaN]
       ELSE [len |-> stop - p,
             val |-> ToDouble(IF neg THEN -mant ELSE mant, expo - nFrac)]

\* parseFloat: leading blanks skipped, the longest numeric prefix, else NaN
ParseFloat(s) == DecimalAt(s, WsRun(s, 1) + 1).val

\* the digits of 0x.., 0o.., 0b.. literals
RadixDigits(c) ==
    IF c \in {"x", "X"}
    THEN {DigitChars[d] : d \in 1..10}
         \cup {"a", "b", "c", "d", "e", "f", "A", "B", "C", "D", "E", "F"}
    ELSE IF c \in {"o", "O"} THEN {DigitChars[d] : d \in 1..8}
    ELSE IF c \in {"b", "B"} THEN {"0", "1"}
    ELSE {}

\* isNaN(Number(s)) for a string s: Number takes the whole trimmed string, the
\* empty string being 0
IsNaNNumber(s) ==
    LET t == Trim(s) IN
    /\ t # <<>>
    /\ DecimalAt(t, 1).len # Len(t)
    /\ ~ (/\ Len(t) >= 3
          /\ t[1] = "0"
          /\ \A k \in 3..Len(t) : t[k] \in RadixDigits(t[2]))

RECURSIVE NatToString(_)
NatToString(n) ==
    IF n < 10 THEN <<DigitChars[n + 1]>>
    ELSE Append(NatToString(n \div 10), DigitChars[(n % 10) + 1])

Zeros(n) == [k \in 1..n |-> "0"]

\* Number::toString of a number (radix 10)
NumToString(x) ==
    IF x.k = "nan" THEN <<"N", "a", "N">>
    ELSE IF x.k = "inf"
    THEN (IF x.m < 0 THEN <<"-">> ELSE <<>>) \o InfinityWord
    ELSE IF x.m = 0 THEN <<"0">>
    ELSE LET digits == NatToString(Abs(x.m))
             k == Len(digits)
             n == k + x.e
             sign == IF x.m < 0 THEN <<"-">> ELSE <<>>
             body ==
                 IF k <= n /\ n <= 21 THEN digits \o Zeros(n - k)
                 ELSE IF 0 < n /\ n <= 21
                 THEN SubSeq(digits, 1, n) \o <<".">> \o SubSeq(digits, n + 1, k)
                 ELSE IF -6 < n /\ n <= 0
                 THEN <<"0", ".">> \o Zeros(-n) \o digits
                 ELSE (IF k = 1 THEN digits
                       ELSE <<digits[1], ".">> \o SubSeq(digits, 2, k))
                      \o <<"e", IF n - 1 < 0 THEN "-" ELSE "+">>
                      \o NatToString(Abs(n - 1))
         IN sign \o body

\* ------------------------------------------------------------------ cells
\* sheet_to_json(ws, {header: 1}): a row is a sequence of cells; a cell is a
\* string, a number, or absent (null / undefined)
NullCell == [t |-> "null", s |-> <<>>, n |-> Zero]
StrCell(s) == [t |-> "str", s |-> s, n |-> Zero]
NumCell(m, e) == [t |-> "num", s |-> <<>>, n |-> Normalize(m, e)]

\* row[i], i counted from 0; past the end it is undefined
CellAt(row, i) == IF i >= 0 /\ i + 1 <= Len(row) THEN row[i + 1] ELSE NullCell

\* String(c)
CellToString(c) ==
    IF c.t = "str" THEN c.s
    ELSE IF c.t = "num" THEN NumToString(c.n)
    ELSE <<"u", "n", "d", "e", "f", "i", "n", "e", "d">>

\* c !== null && c !== undefined && c !== ""
NonEmpty(c) == c.t = "num" \/ (c.t = "str" /\ c.s # <<>>)

\* !c  (null, undefined, "", 0)
Falsy(c) == c.t = "null" \/ (c.t = "str" /\ c.s = <<>>) \/ (c.t = "num" /\ c.n.m = 0)

\* ... && typeof c === "string" && isNaN(Number(c))
IsTextCell(c) == NonEmpty(c) /\ c.t = "str" /\ IsNaNNumber(c.s)

TextCells(row) == Cardinality({k \in DOMAIN row : IsTextCell(row[k])})

Min(a, b) == IF a < b THEN a ELSE b
Max(a, b) == IF a > b THEN a ELSE b

ElevenRows == 10 + 1
HeaderScanRows == 10
NoCol == -1

\* the header row: first row, among the first ten, with 2+ text cells; else row 0
HeaderIdx(data) ==
    LET hits == {i \in 0..(Min(Len(data), HeaderScanRows) - 1) :
                    TextCells(data[i + 1]) >= 2}
    IN IF hits = {} THEN 0 ELSE CHOOSE i \in hits : \A j \in hits : i <= j

RECURSIVE MaxCols(_)
MaxCols(data) ==
    IF data = <<>> THEN 0 ELSE Max(Len(Head(data)), MaxCols(Tail(data)))

ColumnLabel(i) ==
    <<"C", "o", "l", "u", "m", "n", "a", " ">>
        \o <<IF i < 26 THEN UpperChars[i + 1] ELSE "?">>

\* headers: the trimmed header cell, or "Columna <letter>"
BuildHeaders(data) ==
    LET headerRow == IF data = <<>> THEN <<>> ELSE data[HeaderIdx(data) + 1] IN
    [k \in 1..MaxCols(data) |->
        LET val == CellAt(headerRow, k - 1) IN
        IF val.t # "null" /\ Trim(CellToString(val)) # <<>>
        THEN Trim(CellToString(val))
        ELSE ColumnLabel(k - 1)]

\* a slice with no filter after it
RowsAfterHeader(data) == SubSeq(data, HeaderIdx(data) + 2, Len(data))

\* data.slice(headerIdx + 1).filter((r) => r && r.some(nonEmpty))
DataRows(data) ==
    LET HasContent(r) == \E k \in DOMAIN r : NonEmpty(r[k]) IN
    SelectSeq(SubSeq(data, HeaderIdx(data) + 2, Len(data)), HasContent)

FechaWords == {<<"f", "e", "c", "h">>, <<"d", "a", "t", "e">>}
ImporteWords ==
    {<<"i", "m", "p", "o", "r", "t", "e">>, <<"a", "m", "o", "u", "n", "t">>,
     <<"c", "a", "r", "g", "o">>, <<"a", "b", "o", "n", "o">>,
     <<"v", "a", "l", "o", "r">>}
ConceptoWords ==
    {<<"c", "o", "n", "c", "e", "p", "t", "o">>, <<"d", "e", "s", "c", "r">>,
     <<"c", "o", "n", "c", "e", "p", "t">>, <<"d", "e", "t", "a", "l", "l", "e">>}

\* first header that includes one of the words, as a column number from 0
FirstColumn(headers, words) ==
    LET hits == {k \in DOMAIN headers :
                    \E w \in words : Includes(ToLowerCase(headers[k]), w)}
    IN IF hits = {} THEN NoCol ELSE (CHOOSE k \in hits : \A j \in hits : k <= j) - 1

AutoMap(headers) ==
    [fecha |-> FirstColumn(headers, FechaWords),
     importe |-> FirstColumn(headers, ImporteWords),
     concepto |-> FirstColumn(headers, ConceptoWords)]

\* parseFloat(String(cell).replace(",", ".")) || 0
Importe(cell) ==
    LET x == ParseFloat(ReplaceFirstComma(CellToString(cell))) IN
    IF x.k = "nan" THEN Zero ELSE x

\* one row of excelRaw under the column map
MapRow(row, cm) ==
    [_fecha |-> IF cm.fecha # NoCol THEN CellAt(row, cm.fecha) ELSE NullCell,
     _importe |-> Importe(CellAt(row, cm.importe)),
     _concepto |->
        IF cm.concepto # NoCol /\ ~Falsy(CellAt(row, cm.concepto))
        THEN CellToString(CellAt(row, cm.concepto)) ELSE <<>>,
     _raw |-> row]

\* a map with no filter after it
MappedAll(rows, cm) == [k \in DOMAIN rows |-> MapRow(rows[k], cm)]

\* excelRaw.map(...).filter((r) => r._importe !== 0)
Mapped(rows, cm) ==
    LET NonZero(r) == r._importe # Zero IN
    SelectSeq([k \in DOMAIN rows |-> MapRow(rows[k], cm)], NonZero)

\* a filter that lets every file through
AnyFile(f) == f.type \in MediaTypes

\* f.type.startsWith("image/") || f.type === "application/pdf"
Accepted(f) == f.type = "image" \/ f.type = "pdf"

\* entries: one pending Ticket per accepted file; an image gets its object URL
NewEntry(f) ==
    [name |-> f.name, type |-> f.type, status |-> "pending", data |-> NoData,
     preview |-> (f.type = "image")]

Entries(files) == [k \in DOMAIN files |-> NewEntry(files[k])]

\* how many of the entries got an object URL for their preview
Previews(entries) == Cardinality({k \in DOMAIN entries : entries[k].preview})

\* prev.map((t) => (t.name === entry.name ? { ...t, status: "processing" } : t))
MarkProcessing(ts, name) ==
    [k \in DOMAIN ts |->
        IF ts[k].name = name THEN [ts[k] EXCEPT !.status = "processing"] ELSE ts[k]]

\* prev.map((t) => (t.name === entry.name ? { ...t, status, data } : t))
MarkResult(ts, name, status, data) ==
    [k \in DOMAIN ts |->
        IF ts[k].name = name THEN [ts[k] EXCEPT !.status = status, !.data = data]
        ELSE ts[k]]

\* what analyzeTicket can do: resolve to a JSON object, with or without a truthy
\* `error`, or reject (fetch or res.json() throws)
AnnotValues == {1}
AnnotatorOutcomes ==
    [kind : {"ok"}, v : AnnotValues] \cup {[kind |-> "rejected", v |-> 0]}
        \cup {[kind |-> "throws", v |-> 0]}

ConnError == [kind |-> "conn", v |-> 0]     \* { error: "Error de conexión" }

Batches == UNION {[1..n -> Files] : n \in 1..MaxBatch}

\* ------------------------------------------------------------------ matching
\* formatDate: "—" for a falsy value, else a locale date built from the Excel
\* serial number or from the parsed text
FormatDate(d) ==
    IF Falsy(d) THEN [fmt |-> "dash", of |-> NullCell]
    ELSE IF d.t = "num" THEN [fmt |-> "serial", of |-> d]
    ELSE [fmt |-> "text", of |-> d]

\* movSummary
MovSummary(movs) ==
    [k \in DOMAIN movs |->
        [idx |-> k - 1, fecha |-> FormatDate(movs[k]._fecha),
         importe |-> movs[k]._importe, concepto |-> movs[k]._concepto]]

IsDone(t) == t.status = "done"

\* a filter that lets every receipt without an error through
NotErrorTickets(ts) ==
    LET NotError(t) == t.status # "error" IN SelectSeq(ts, NotError)

\* doneTickets = tickets.filter((t) => t.status === "done")
DoneTickets(ts) == SelectSeq(ts, IsDone)

\* the positions in ts of the receipts of DoneTickets(ts), in order
RECURSIVE DonePositions(_, _)
DonePositions(ts, from) ==
    IF from > Len(ts) THEN <<>>
    ELSE (IF IsDone(ts[from]) THEN <<from>> ELSE <<>>) \o DonePositions(ts, from + 1)

\* tickSummary
TickSummary(done) ==
    [k \in DOMAIN done |-> [idx |-> k - 1, filename |-> done[k].name, data |-> done[k].data]]

NoResult ==
    [kind |-> "null", error |-> FALSE, hasMatches |-> FALSE, matches |-> <<>>,
     movimientos_sin_ticket |-> <<>>, tickets_sin_movimiento |-> <<>>]

\* a JSON object with the three lists of a MatchResult
ResultBody(matches, sinTicket, sinMov) ==
    [kind |-> "object", error |-> FALSE, hasMatches |-> TRUE, matches |-> matches,
     movimientos_sin_ticket |-> sinTicket, tickets_sin_movimiento |-> sinMov]

\* { error: "API key not configured" }
ErrorBody == [NoResult EXCEPT !.kind = "object", !.error = TRUE]
\* {}
EmptyObject == [NoResult EXCEPT !.kind = "object"]

\* POST of /api/match: what the route answers for what its environment does
\*   nokey         ANTHROPIC_API_KEY is unset
\*   throws        the upstream fetch, or response.json(), throws
\*   nocontent     the upstream answers an object with no content (an error)
\*   unparsable    the text of the answer is not JSON
\*   json          the text of the answer parses to the object `payload`
MatchRoute(up) ==
    IF up.kind = "nokey" THEN [status |-> 500, json |-> TRUE, body |-> ErrorBody]
    ELSE IF up.kind = "throws" THEN [status |-> 500, json |-> FALSE, body |-> NoResult]
    ELSE IF up.kind = "nocontent" THEN [status |-> 200, json |-> TRUE, body |-> EmptyObject]
    ELSE IF up.kind = "unparsable"
    THEN [status |-> 200, json |-> TRUE, body |-> ResultBody(<<>>, <<>>, <<>>)]
    ELSE [status |-> 200, json |-> TRUE, body |-> up.payload]

\* matchExpenses: rejects when the route is unreachable or its body is not
\* JSON, and resolves to the body otherwise, whatever the status
MatchExpenses(up) ==
    IF up.kind = "unreachable" \/ ~MatchRoute(up).json
    THEN [throws |-> TRUE, result |-> NoResult]
    ELSE [throws |-> FALSE, result |-> MatchRoute(up).body]

NoBasis == [movs |-> <<>>, pos |-> <<>>]
IdleCall == [busy |-> FALSE, movSummary |-> <<>>, tickSummary |-> <<>>, sent |-> NoBasis]

\* the results view maps over matchResult.matches: with no such list the
\* render throws and the component tree is gone
Crashed == step = 2 /\ matchResult.kind = "object" /\ ~matchResult.hasMatches

\* ------------------------------------------------------------------ Init
Init ==
    /\ step = 0
    /\ movements = <<>>
    /\ colMap = [fecha |-> NoCol, importe |-> NoCol, concepto |-> NoCol]
    /\ excelHeaders = <<>>
    /\ excelRaw = <<>>
    /\ tickets = <<>>
    /\ matchResult = NoResult
    /\ loading = FALSE
    /\ toast = "none"
    /\ excelRead = [busy |-> FALSE, data |-> <<>>]
    /\ runs = [r \in RunIds |-> IdleRun]
    /\ matchCall = IdleCall
    /\ basis = NoBasis
    /\ objectURLs = 0
    /\ workbook = <<>>

\* ------------------------------------------------------------------ statement
\* handleExcelFile: the upload zone of step 0 starts a FileReader
HandleExcelFile(data) ==
    /\ ~Crashed
    /\ UNCHANGED effectVars
    /\ step = 0
    /\ excelRaw = <<>>
    /\ ~excelRead.busy
    /\ excelRead' = [busy |-> TRUE, data |-> data]
    /\ UNCHANGED <<step, movements, colMap, excelHeaders, excelRaw, tickets, toast,
                   runs, matchVars>>

\* reader.onload of handleExcelFile
ExcelLoaded ==
    /\ ~Crashed
    /\ UNCHANGED effectVars
    /\ excelRead.busy
    /\ excelHeaders' = BuildHeaders(excelRead.data)
    /\ excelRaw' = DataRows(excelRead.data)
    /\ colMap' = AutoMap(BuildHeaders(excelRead.data))
    /\ toast' = "success:cargados"
    /\ excelRead' = [excelRead EXCEPT !.busy = FALSE]
    /\ UNCHANGED <<step, movements, tickets, runs, matchVars>>

\* <select onChange> of the column mapper
SetColMap(key, value) ==
    /\ ~Crashed
    /\ UNCHANGED effectVars
    /\ step = 0
    /\ excelRaw # <<>>
    /\ value \in {NoCol} \cup (0..(Len(excelHeaders) - 1))
    /\ colMap' = [colMap EXCEPT ![key] = value]
    /\ UNCHANGED <<step, movements, excelHeaders, excelRaw, excelRead, tickets, toast,
                   runs, matchVars>>

\* "Cambiar archivo"
ChangeFile ==
    /\ ~Crashed
    /\ UNCHANGED effectVars
    /\ step = 0
    /\ excelRaw # <<>>
    /\ excelRaw' = <<>>
    /\ excelHeaders' = <<>>
    /\ UNCHANGED <<step, movements, colMap, excelRead, tickets, toast, runs, matchVars>>

\* a mapping applied without the test for the amount column
ApplyUnchecked ==
    /\ ~Crashed
    /\ step = 0
    /\ excelRaw # <<>>
    /\ movements' = Mapped(excelRaw, colMap)
    /\ step' = 1
    /\ toast' = "success:procesados"
    /\ UNCHANGED <<colMap, excelHeaders, excelRaw, excelRead, tickets, runs, matchVars,
                   effectVars>>

\* applyColumnMap
ApplyColumnMap ==
    /\ ~Crashed
    /\ UNCHANGED effectVars
    /\ step = 0
    /\ excelRaw # <<>>
    /\ IF colMap.importe = NoCol
       THEN /\ toast' = "error:importe"
            /\ UNCHANGED <<step, movements>>
       ELSE /\ movements' = Mapped(excelRaw, colMap)
            /\ step' = 1
            /\ toast' = "success:procesados"
    /\ UNCHANGED <<colMap, excelHeaders, excelRaw, excelRead, tickets, runs, matchVars>>

\* the stepper, "Volver" and "Añadir más tickets": step > i && setStep(i)
StepTo(i) ==
    /\ ~Crashed
    /\ UNCHANGED effectVars
    /\ step > i
    /\ step' = i
    /\ UNCHANGED <<excelVars, tickets, toast, runs, matchVars>>

\* ------------------------------------------------------------------ intake
\* handleTicketFiles up to its first await (the FileReader promise)
HandleTicketFiles(files) ==
    /\ ~Crashed
    /\ step = 1
    /\ LET newTickets == SelectSeq(files, Accepted) IN
       IF newTickets = <<>>
       THEN /\ toast' = "warning:tipos"
            /\ UNCHANGED <<tickets, runs, objectURLs>>
       ELSE /\ Len(tickets) + Len(newTickets) <= MaxTickets
            /\ objectURLs + Previews(Entries(newTickets)) <= MaxURLs
            /\ objectURLs' = objectURLs + Previews(Entries(newTickets))
            /\ \E r \in RunIds :
                  /\ runs[r].pc = "idle"
                  /\ \A q \in 1..(r - 1) : runs[q].pc # "idle"
                  /\ runs' = [runs EXCEPT ![r] =
                                [pc |-> "reading", entries |-> newTickets, i |-> 1,
                                 base |-> Len(tickets), stale |-> FALSE]]
            /\ tickets' = MarkProcessing(tickets \o Entries(newTickets),
                                         newTickets[1].name)
            /\ UNCHANGED toast
    /\ UNCHANGED <<step, excelVars, matchVars, workbook>>

\* reader.onload: the promise resolves and analyzeTicket issues its fetch
FileLoaded(r) ==
    /\ ~Crashed
    /\ UNCHANGED effectVars
    /\ runs[r].pc = "reading"
    /\ runs' = [runs EXCEPT ![r].pc = "calling"]
    /\ UNCHANGED <<step, excelVars, tickets, toast, matchVars>>

\* the read fails: there is no reader.onerror, so the promise never settles
FileReadFails(r) ==
    /\ ~Crashed
    /\ UNCHANGED effectVars
    /\ runs[r].pc = "reading"
    /\ runs' = [runs EXCEPT ![r].pc = "stuck"]
    /\ UNCHANGED <<step, excelVars, tickets, toast, matchVars>>

\* analyzeTicket settles; the loop records the outcome and, in the same
\* continuation, marks the next entry processing and starts reading it
AnnotatorSettles(r, out) ==
    /\ ~Crashed
    /\ UNCHANGED effectVars
    /\ runs[r].pc = "calling"
    /\ LET run == runs[r]
           name == run.entries[run.i].name
           recorded ==
               IF out.kind = "throws"
               THEN MarkResult(tickets, name, "error", ConnError)
               ELSE MarkResult(tickets, name,
                               IF out.kind = "rejected" THEN "error" ELSE "done", out)
       IN IF run.i < Len(run.entries)
          THEN /\ tickets' = MarkProcessing(recorded, run.entries[run.i + 1].name)
               /\ runs' = [runs EXCEPT ![r].pc = "reading", ![r].i = run.i + 1]
          ELSE /\ tickets' = recorded
               /\ runs' = [runs EXCEPT ![r] = IdleRun]
    /\ UNCHANGED <<step, excelVars, toast, matchVars>>

\* ------------------------------------------------------------------ run
\* runMatching up to its await.  The run button is disabled while loading; its
\* disabled attribute also repeats the handler's test for done receipts, and
\* it is the handler's own test that decides here
RunMatching ==
    /\ ~Crashed
    /\ UNCHANGED effectVars
    /\ step = 1
    /\ ~loading
    /\ IF DoneTickets(tickets) = <<>>
       THEN /\ toast' = "warning:espera"
            /\ UNCHANGED <<loading, matchCall>>
       ELSE /\ loading' = TRUE
            /\ matchCall' = [busy |-> TRUE,
                             movSummary |-> MovSummary(movements),
                             tickSummary |-> TickSummary(DoneTickets(tickets)),
                             sent |-> [movs |-> movements,
                                       pos |-> DonePositions(tickets, 1)]]
            /\ UNCHANGED toast
    /\ UNCHANGED <<step, excelVars, tickets, runs, matchResult, basis>>

\* matchExpenses settles: the result is installed as it came, or the catch
\* reports the failure
MatcherSettles(up) ==
    /\ ~Crashed
    /\ UNCHANGED effectVars
    /\ matchCall.busy
    /\ LET got == MatchExpenses(up) IN
       IF got.throws
       THEN /\ toast' = "error:matching"
            /\ UNCHANGED <<step, matchResult, basis>>
       ELSE /\ matchResult' = got.result
            /\ step' = 2
            /\ toast' = "success:matches"
            /\ basis' = matchCall.sent
    /\ loading' = FALSE
    /\ matchCall' = IdleCall
    /\ UNCHANGED <<excelVars, tickets, runs>>

\* "Nueva conciliación"
Reset ==
    /\ ~Crashed
    /\ UNCHANGED effectVars
    /\ step = 2
    /\ matchResult.kind # "null"
    /\ step' = 0
    /\ movements' = <<>>
    /\ tickets' = <<>>
    /\ matchResult' = NoResult
    /\ excelRaw' = <<>>
    /\ basis' = NoBasis
    /\ runs' = [r \in RunIds |->
                  IF runs[r].pc = "idle" THEN runs[r] ELSE [runs[r] EXCEPT !.stale = TRUE]]
    /\ UNCHANGED <<colMap, excelHeaders, excelRead, loading, toast, matchCall>>

\* ------------------------------------------------------------------ report
\* the stats of the results view and of the export
Matched == IF matchResult.hasMatches THEN Len(matchResult.matches) ELSE 0
Total == Len(movements)
SinTicket == Len(matchResult.movimientos_sin_ticket)
TicketsSinMov == Len(matchResult.tickets_sin_movimiento)

\* Math.round(n / d) for n >= 0 and d > 0: the integer nearest to the quotient,
\* the upper one of two (exact for the counts of the model)
MathRound(n, d) == (2 * n + d) \div (2 * d)

\* pct = total ? Math.round((matched / total) * 100) : 0
Pct == IF Total # 0 THEN MathRound(Matched * 100, Total) ELSE 0

\* list.map((idx) => target[idx]).filter(Boolean): the indices that resolve
Resolved(list, target) ==
    LET Resolves(idx) == idx + 1 \in DOMAIN target IN SelectSeq(list, Resolves)

SheetOf(name, rows) == [name |-> name, rows |-> rows]

\* exportToExcel: the summary sheet of 11 lines, then one sheet per list that
\* has entries, with the rows json_to_sheet is given
ExportToExcel ==
    /\ ~Crashed
    /\ step = 2
    /\ matchResult.kind # "null"
    /\ workbook' =
          <<SheetOf("Resumen", 11)>>
          \o (IF Len(matchResult.matches) > 0
              THEN <<SheetOf("Conciliados", Len(matchResult.matches))>> ELSE <<>>)
          \o (IF SinTicket > 0
              THEN <<SheetOf("Sin ticket",
                             Len(Resolved(matchResult.movimientos_sin_ticket, movements)))>>
              ELSE <<>>)
          \o (IF TicketsSinMov > 0
              THEN <<SheetOf("Tickets sin movimiento",
                             Len(Resolved(matchResult.tickets_sin_movimiento, tickets)))>>
              ELSE <<>>)
    /\ toast' = "success:excel"
    /\ UNCHANGED <<step, excelVars, tickets, runs, matchVars, objectURLs>>

\* setTimeout(() => setToast(null), 3500)
ToastTimeout ==
    /\ ~Crashed
    /\ UNCHANGED effectVars
    /\ toast # "none"
    /\ toast' = "none"
    /\ UNCHANGED <<step, excelVars, tickets, runs, matchVars>>

\* ------------------------------------------------------------------ inputs
\* a statement with a title line, a header line, a blank line, amounts with a
\* decimal comma, and two amount columns that are not filled in the same rows
GridA ==
    << <<StrCell(<<"B", "a", "n", "c", "o">>)>>,
       <<StrCell(<<"F", "e", "c", "h", "a">>), StrCell(<<"C", "a", "r", "g", "o">>),
         StrCell(<<"A", "b", "o", "n", "o">>)>>,
       <<NumCell(45000, 0), StrCell(<<"1", "2", ",", "5", "0">>)>>,
       <<>>,
       <<NumCell(45001, 0), NullCell, NumCell(30, 0)>>,
       <<NumCell(45002, 0), StrCell(<<"7">>), StrCell(<<"7">>)>> >>

\* a statement with no header line: no column is detected
GridB ==
    << <<NumCell(45000, 0), NumCell(1250, -2)>>,
       <<NumCell(45001, 0), StrCell(<<"n", "/", "a">>)>>,
       <<NumCell(45002, 0), NumCell(30, 0)>> >>

Grids == {GridA, GridB}

\* what the Matcher's answer can hold
MaxMatches == 2
MaxUnmatched == 1
MatchIdx == {0, 1}
MatchEntries == [movimiento_idx : MatchIdx, ticket_idx : MatchIdx]
MatchLists == UNION {[1..n -> MatchEntries] : n \in 0..MaxMatches}
IdxLists == UNION {[1..n -> MatchIdx] : n \in 0..MaxUnmatched}
Payloads == {ResultBody(m, st, sm) : m \in MatchLists, st \in IdxLists, sm \in IdxLists}
MatcherOutcomes ==
    {[kind |-> k, payload |-> NoResult] :
        k \in {"unreachable", "nokey", "throws", "nocontent", "unparsable"}}
    \cup {[kind |-> "json", payload |-> p] : p \in Payloads}

\* the answers with at most one match and no unmatched index
CoarseOutcomes ==
    {up \in MatcherOutcomes :
        /\ Len(up.payload.matches) <= 1
        /\ up.payload.movimientos_sin_ticket = <<>>
        /\ up.payload.tickets_sin_movimiento = <<>>}

\* one image per intake call
SingleImages == {<<[name |-> n, type |-> "image"]>> : n \in Names}

\* the rows a sheet is made of: blank rows, a title, header lines, and rows
\* whose second cell is an amount written in one way or another
Sheet(date, amount) == <<NumCell(date, 0), amount>>
SheetRows ==
    {<<NullCell, StrCell(<<>>)>>,
     <<StrCell(<<"B", "a", "n", "c", "o">>)>>,
     <<StrCell(<<"F", "e", "c", "h", "a">>), StrCell(<<"V", "a", "l", "o", "r">>)>>,
     <<StrCell(<<"2", "0", "2", "4">>), StrCell(<<" ", "7", " ">>)>>,
     Sheet(45000, StrCell(<<"1", "2", ",", "5", "0">>)),
     Sheet(45001, StrCell(<<"1", "2", ".", "5", "0">>)),
     Sheet(45004, StrCell(<<"-", "0", ",", "0">>)),
     Sheet(45005, StrCell(<<"1", ",", "2", "3", "4", ",", "5">>)),
     Sheet(45006, NumCell(-305, -1))}

\* the sheets: every sheet of up to MaxRows rows, and the same below a run
\* of title lines that ends around the tenth row
MaxRows == 2
PadRows == {9, 10}
ShortSheets == UNION {[1..n -> SheetRows] : n \in 0..MaxRows}
Titles(n) == [k \in 1..n |-> <<StrCell(<<"B", "a", "n", "c", "o">>)>>]
SheetGrids == ShortSheets \cup {Titles(n) \o g : n \in PadRows, g \in ShortSheets}

\* ------------------------------------------------------------------ specifications
\* the statement: any sheet is loaded, the amount and the concept column are
\* chosen by hand, the mapping is applied
SheetNext ==
    \/ \E data \in SheetGrids : HandleExcelFile(data)
    \/ ExcelLoaded
    \/ \E key \in {"importe", "concepto"}, value \in {NoCol, 0, 1} : SetColMap(key, value)
    \/ ApplyColumnMap

SheetSpec == Init /\ [][SheetNext]_vars

\* the receipt intake: a statement is loaded and mapped, then receipts are
\* taken in by any number of intake calls
IntakeNext ==
    \/ HandleExcelFile(GridA)
    \/ ExcelLoaded
    \/ ApplyColumnMap
    \/ \E files \in Batches : HandleTicketFiles(files)
    \/ \E r \in RunIds : FileLoaded(r)
    \/ \E r \in RunIds : FileReadFails(r)
    \/ \E r \in RunIds, out \in AnnotatorOutcomes : AnnotatorSettles(r, out)
    \/ ToastTimeout

IntakeSpec == Init /\ [][IntakeNext]_vars

\* an intake call made when no earlier one is still looping
NextIntake(files) ==
    /\ \A r \in RunIds : runs[r].pc = "idle"
    /\ HandleTicketFiles(files)

\* the reconciliation: receipts are taken in one image at a time, each intake
\* call after the one before it has ended, and runs are attempted at any moment
MatchNext ==
    \/ HandleExcelFile(GridA)
    \/ ExcelLoaded
    \/ ApplyColumnMap
    \/ \E files \in SingleImages : NextIntake(files)
    \/ \E r \in RunIds : FileLoaded(r)
    \/ \E r \in RunIds, out \in AnnotatorOutcomes : AnnotatorSettles(r, out)
    \/ RunMatching
    \/ \E up \in MatcherOutcomes : MatcherSettles(up)
    \/ StepTo(1)

MatchSpec == Init /\ [][MatchNext]_vars

\* the client from statement to installed result and reset (the export is in
\* ReportSpec), the amount column being the one the user re-maps
AmountCols == {1, 2}
OneImage == <<[name |-> "a", type |-> "image"]>>

Next ==
    \/ \E data \in Grids : HandleExcelFile(data)
    \/ ExcelLoaded
    \/ \E value \in {NoCol} \cup AmountCols : SetColMap("importe", value)
    \/ ChangeFile
    \/ ApplyColumnMap
    \/ \E i \in 0..1 : StepTo(i)
    \/ NextIntake(OneImage)
    \/ \E r \in RunIds : FileLoaded(r)
    \/ \E r \in RunIds : FileReadFails(r)
    \/ \E r \in RunIds, out \in AnnotatorOutcomes : AnnotatorSettles(r, out)
    \/ RunMatching
    \/ \E up \in CoarseOutcomes : MatcherSettles(up)
    \/ Reset
    \/ ToastTimeout

Spec == Init /\ [][Next]_vars

\* the intake with its scheduling: a started read ends (it loads or it fails)
\* and an issued Annotator call settles
IntakeFairSpec ==
    /\ Init
    /\ [][IntakeNext]_vars
    /\ \A r \in RunIds :
          /\ WF_vars(FileLoaded(r) \/ FileReadFails(r))
          /\ WF_vars(\E out \in AnnotatorOutcomes : AnnotatorSettles(r, out))

\* the report: a statement of one or of two movements is mapped, receipts are
\* taken in one image at a time, and every answer of the Matcher is reported
\* and exported
ReportNext ==
    \/ \E data \in Grids : HandleExcelFile(data)
    \/ ExcelLoaded
    \/ SetColMap("importe", 1)
    \/ ApplyColumnMap
    \/ NextIntake(OneImage)
    \/ \E r \in RunIds : FileLoaded(r)
    \/ \E r \in RunIds, out \in AnnotatorOutcomes : AnnotatorSettles(r, out)
    \/ RunMatching
    \/ \E up \in MatcherOutcomes : MatcherSettles(up)
    \/ ExportToExcel

ReportSpec == Init /\ [][ReportNext]_vars

\* the session across resets: PDF receipts (no object URL) are taken in by any
\* number of intake calls, runs are attempted at any moment, and the session
\* is reset while intake calls may still be looping
PdfBatches == UNION {[1..n -> [name : Names, type : {"pdf"}]] : n \in 1..MaxBatch}

SessionNext ==
    \/ HandleExcelFile(GridA)
    \/ ExcelLoaded
    \/ ApplyColumnMap
    \/ \E files \in PdfBatches : HandleTicketFiles(files)
    \/ \E r \in RunIds : FileLoaded(r)
    \/ \E r \in RunIds, out \in AnnotatorOutcomes : AnnotatorSettles(r, out)
    \/ RunMatching
    \/ \E up \in CoarseOutcomes : MatcherSettles(up)
    \/ Reset

SessionSpec == Init /\ [][SessionNext]_vars

\* ------------------------------------------------------------------ claims
Terminal(t) == t.status \in {"done", "error"}

\* C1: a receipt that has reached done or error is not pending or processing
\* after any later step and keeps its annotation, whatever intake call,
\* completion or failure the step is
C1_TerminalIsFinal ==
    [][\A k \in DOMAIN tickets :
          (Terminal(tickets[k]) /\ k \in DOMAIN tickets')
              => (/\ Terminal(tickets'[k])
                  /\ tickets'[k].data = tickets[k].data)]_vars

\* C2: at every moment at most one Annotator call is in flight and at most
\* one receipt is processing
C2_OneInFlight ==
    /\ Cardinality({r \in RunIds : runs[r].pc = "calling"}) <= 1
    /\ Cardinality({k \in DOMAIN tickets : tickets[k].status = "processing"}) <= 1

\* C9: every receipt taken in eventually reaches done or error
C9_EveryReceiptSettles ==
    \A k \in 1..MaxTickets :
        [](k \in DOMAIN tickets => <>(k \in DOMAIN tickets /\ Terminal(tickets[k])))

\* C10: while an intake call works on the entry at position N of its batch,
\* the receipts of the later entries of that batch are still pending
C10_InBatchOrder ==
    \A r \in RunIds :
        runs[r].pc # "idle" =>
            \A j \in (runs[r].i + 1)..Len(runs[r].entries) :
                (runs[r].base + j) \in DOMAIN tickets
                    => tickets[runs[r].base + j].status = "pending"

SeqSet(q) == {q[k] : k \in DOMAIN q}
NoRepeats(q) == \A k, l \in DOMAIN q : q[k] = q[l] => k = l

Installed == matchResult.kind = "object"
MatchedMovs == {matchResult.matches[k].movimiento_idx : k \in DOMAIN matchResult.matches}
MatchedTicks == {matchResult.matches[k].ticket_idx : k \in DOMAIN matchResult.matches}
\* the index spaces of the summaries the installed result answers
MovIndices == 0..(Len(basis.movs) - 1)
TickIndices == 0..(Len(basis.pos) - 1)

\* C3: the unmatched lists of an installed result are the complements of the
\* matched indices in the index spaces of the run, whatever the Matcher
\* answered, so that matched + unmatched movements = total movements
C3_UnmatchedRecomputed ==
    Installed =>
        /\ matchResult.hasMatches
        /\ NoRepeats(matchResult.movimientos_sin_ticket)
        /\ SeqSet(matchResult.movimientos_sin_ticket) = MovIndices \ MatchedMovs
        /\ NoRepeats(matchResult.tickets_sin_movimiento)
        /\ SeqSet(matchResult.tickets_sin_movimiento) = TickIndices \ MatchedTicks
        /\ Len(matchResult.matches) + Len(matchResult.movimientos_sin_ticket)
              = Len(basis.movs)

\* C4: in an installed result no movement index and no receipt index is in
\* two match entries, every index of an entry is within the summaries sent,
\* and a movement index that no entry holds is in movimientos_sin_ticket
C4_OneToOneInRange ==
    Installed =>
        /\ \A k, l \in DOMAIN matchResult.matches :
              k # l =>
                  /\ matchResult.matches[k].movimiento_idx
                        # matchResult.matches[l].movimiento_idx
                  /\ matchResult.matches[k].ticket_idx # matchResult.matches[l].ticket_idx
        /\ MatchedMovs \subseteq MovIndices
        /\ MatchedTicks \subseteq TickIndices
        /\ (MovIndices \ MatchedMovs) \subseteq SeqSet(matchResult.movimientos_sin_ticket)

\* C5: the receipt the report and the export show for a receipt index of the
\* installed result (tickets[i]) is the i-th receipt summarised for the Matcher
C5_SameReceipt ==
    Installed =>
        \A i \in (MatchedTicks \cup SeqSet(matchResult.tickets_sin_movimiento)) :
            i \in TickIndices => basis.pos[i + 1] = i + 1

FailedOutcomes == {up \in MatcherOutcomes : up.kind # "json"}

\* C6: a run that ends with the Matcher unreachable, answering an error
\* status or answering an unparsable payload leaves the match result as it
\* was and does not move to the results view
C6_FailedRunInstallsNothing ==
    [][\A up \in FailedOutcomes :
          MatcherSettles(up) => (matchResult' = matchResult /\ step' = step)]_vars

NoneDone == \A k \in DOMAIN tickets : tickets[k].status # "done"

\* C7: a run attempted while no receipt is done warns, issues no Matcher call
\* and leaves the match result, the step, the movements and the receipts alone
C7_NotReady ==
    [][(RunMatching /\ NoneDone) =>
          (/\ toast' = "warning:espera"
           /\ UNCHANGED <<matchResult, step, movements, tickets, matchCall, loading>>)]_vars

\* a run was refused while receipts were there, none of them done
C7_NotReadySeen ==
    /\ toast = "warning:espera"
    /\ tickets # <<>>
    /\ NoneDone
    /\ ~matchCall.busy

\* C8: while an installed result stays installed, no step makes a movement
\* index it holds denote another movement or none (a session reset discards
\* the result)
C8_IndicesStable ==
    [][(Installed /\ matchResult.hasMatches /\ matchResult' = matchResult) =>
          \A idx \in (MatchedMovs \cup SeqSet(matchResult.movimientos_sin_ticket)) :
              idx + 1 \in DOMAIN movements =>
                  /\ idx + 1 \in DOMAIN movements'
                  /\ movements'[idx + 1] = movements[idx + 1]]_vars

\* C11: every object URL still allocated is the preview of a receipt that is
\* still in the collection; after a session reset none of the discarded
\* session's is left
C11_PreviewsReleased == objectURLs = Previews(tickets)

OtherType(f) == f.type \notin {"image", "pdf"}

\* C12: no file of a type other than image or PDF is ever a receipt, and an
\* intake call whose files are all of other types raises the warning, adds no
\* receipt, changes no receipt and starts no loop (no Annotator call)
C12_RejectedBatch ==
    /\ [](\A k \in DOMAIN tickets : ~OtherType(tickets[k]))
    /\ [][\A files \in Batches :
             (HandleTicketFiles(files) /\ \A k \in DOMAIN files : OtherType(files[k]))
                 => (toast' = "warning:tipos" /\ UNCHANGED <<tickets, runs, objectURLs>>)]_vars

\* a batch was refused while the session held receipts
C12_RejectedSeen == toast = "warning:tipos" /\ tickets # <<>>

\* the j-th smallest member of a set of numbers
Nth(S, j) == CHOOSE i \in S : Cardinality({x \in S : x < i}) = j - 1

\* the step in which applyColumnMap maps the rows
ApplyStep == step = 0 /\ step' = 1
\* the step in which the reader of handleExcelFile delivers the sheet
LoadStep == excelRead.busy /\ ~excelRead'.busy

\* C13: no movement made by applyColumnMap has amount 0: the rows whose amount
\* cell is empty, unparsable or zero are dropped and the others are kept, in
\* the order of their rows
C13_NoZeroAmount ==
    [][ApplyStep =>
          LET keep == {i \in DOMAIN excelRaw :
                          Importe(CellAt(excelRaw[i], colMap.importe)) # Zero}
          IN /\ \A k \in DOMAIN movements' : movements'[k]._importe # Zero
             /\ Len(movements') = Cardinality(keep)
             /\ \A j \in DOMAIN movements' :
                   movements'[j]._raw = excelRaw[Nth(keep, j)]]_vars

\* the mapping kept some rows and dropped others
C13_SomeDropped == step = 1 /\ movements # <<>> /\ Len(movements) < Len(excelRaw)

\* a row with at least 2 non-empty text cells that are not numeric-parseable
Qualifies(row) ==
    Cardinality({k \in DOMAIN row :
                    row[k].t = "str" /\ row[k].s # <<>> /\ IsNaNNumber(row[k].s)}) >= 2

\* the lowest qualifying row among rows 0..min(9, lastRow), row 0 without one
ClaimHeaderRow(data) ==
    LET cand == {i \in 0..Min(9, Len(data) - 1) : Qualifies(data[i + 1])}
    IN IF cand = {} THEN 0 ELSE CHOOSE i \in cand : \A j \in cand : i <= j

\* C14: the header row chosen for a sheet is the lowest row among rows
\* 0..min(9, lastRow) with at least 2 text cells that are not numeric, and
\* row 0 when there is none; a row at index 10 or later is never chosen
C14_HeaderRow ==
    [][LoadStep =>
          /\ HeaderIdx(excelRead.data) = ClaimHeaderRow(excelRead.data)
          /\ HeaderIdx(excelRead.data) < 10]_vars

\* a sheet was loaded whose only qualifying row is the one at index 10
C14_LateHeaderSeen ==
    /\ ~excelRead.busy
    /\ excelRaw # <<>>
    /\ Len(excelRead.data) > 10
    /\ Qualifies(excelRead.data[11])
    /\ \A i \in 1..10 : ~Qualifies(excelRead.data[i])

\* C15: the data rows are the rows after the header row that have a non-empty
\* cell, all of them and in their order
C15_DataRows ==
    [][LoadStep =>
          LET data == excelRead.data
              keep == {i \in (HeaderIdx(data) + 2)..Len(data) :
                          \E k \in DOMAIN data[i] : NonEmpty(data[i][k])}
          IN /\ Len(excelRaw') = Cardinality(keep)
             /\ \A j \in DOMAIN excelRaw' : excelRaw'[j] = data[Nth(keep, j)]]_vars

\* a sheet was loaded that has an all-empty row after its header row
C15_BlankRowSeen ==
    /\ ~excelRead.busy
    /\ excelRaw # <<>>
    /\ \E i \in (HeaderIdx(excelRead.data) + 2)..Len(excelRead.data) :
          \A k \in DOMAIN excelRead.data[i] : ~NonEmpty(excelRead.data[i][k])

\* the text with a dot for every comma
DotsForCommas(s) == [k \in DOMAIN s |-> IF s[k] = "," THEN "." ELSE s[k]]

\* the amount of a cell: what parses from its text with dots for commas, 0
\* when nothing parses
ClaimAmount(c) ==
    LET x == ParseFloat(DotsForCommas(CellToString(c))) IN
    IF x.k = "nan" THEN Zero ELSE x

\* C16: applyColumnMap reads an amount written with a comma as it reads the
\* same text with a dot, and reads 0 (the row is dropped) where nothing parses
C16_CommaAsDot ==
    [][ApplyStep =>
          /\ \A j \in DOMAIN movements' :
                movements'[j]._importe
                    = ClaimAmount(CellAt(movements'[j]._raw, colMap.importe))
          /\ Len(movements')
                = Cardinality({i \in DOMAIN excelRaw :
                                  ClaimAmount(CellAt(excelRaw[i], colMap.importe)) # Zero})]_vars

\* a movement whose amount 12.5 comes from a cell written with a comma
C16_CommaSeen ==
    /\ step = 1
    /\ \E j \in DOMAIN movements :
          LET c == CellAt(movements[j]._raw, colMap.importe) IN
          /\ c.t = "str"
          /\ \E k \in DOMAIN c.s : c.s[k] = ","
          /\ movements[j]._importe = Normalize(125, -1)

\* the integer nearest to 100 * matched / total, the upper one of two
ClaimPct ==
    IF Total = 0 THEN 0
    ELSE CHOOSE q \in 0..(100 * (Matched + 1)) :
             /\ 2 * Total * q <= 200 * Matched + Total
             /\ 200 * Matched + Total < 2 * Total * (q + 1)

\* C17: with a result installed the percentage is round(matched / total x 100),
\* 0 when there is no movement, and it lies between 0 and 100
C17_Percentage == Installed => (Pct = ClaimPct /\ 0 <= Pct /\ Pct <= 100)

HasSheet(wb, name) == \E k \in DOMAIN wb : wb[k].name = name
RowsOf(wb, name) == wb[CHOOSE k \in DOMAIN wb : wb[k].name = name].rows

\* C18: the exported document holds the unmatched-receipts table exactly when
\* the table has a row to show, and holds the matched and the
\* unmatched-movements tables only with a row in them
C18_TablesOnlyWithRows ==
    [][ExportToExcel =>
          /\ HasSheet(workbook', "Tickets sin movimiento")
                <=> Len(Resolved(matchResult.tickets_sin_movimiento, tickets)) > 0
          /\ \A name \in {"Conciliados", "Sin ticket", "Tickets sin movimiento"} :
                HasSheet(workbook', name) => RowsOf(workbook', name) > 0]_vars

\* C19: applyColumnMap with no amount column chosen reports the error and
\* leaves the movements, the step, the match result and the rest of the
\* session as they were
C19_NoAmountColumn ==
    [][(ApplyColumnMap /\ colMap.importe = NoCol) =>
          (/\ toast' = "error:importe"
           /\ UNCHANGED <<movements, step, matchResult, tickets, colMap, excelRaw,
                          excelHeaders>>)]_vars

\* the error was reported with movements mapped and a result installed
C19_ErrorSeen ==
    /\ toast = "error:importe"
    /\ colMap.importe = NoCol
    /\ movements # <<>>
    /\ Installed

\* C20: after a session reset, an intake run started before the reset never
\* modifies the session: none of its steps changes the receipt collection
\* (it stays empty until a new intake, and receipts taken in afterwards,
\* same names included, are changed only by their own intake call) or the
\* match result
StaleStep(r) ==
    /\ runs[r].stale
    /\ runs'[r] # runs[r]
    /\ \A q \in RunIds \ {r} : runs'[q] = runs[q]

C20_StaleRunIsInert ==
    [][\A r \in RunIds :
          StaleStep(r) => (tickets' = tickets /\ matchResult' = matchResult)]_vars

====
